---------------------------- MODULE Spec2Model ----------------------------
(***************************************************************************)
(* Model of the flux release engine: the release context                   *)
(* (src/release/context.go) and the HTTP handlers UpdateImages and         *)
(* RegisterV6/V7/V8 (src/service/http/server.go), with the job queue and   *)
(* the executor the handlers and the context work with.                    *)
(*                                                                         *)
(* The specifications of the module share its variables:                   *)
(*   SpecSelect    one call of ReleaseContext.SelectServices on inputs     *)
(*                 drawn from bounded sets (manifests, cluster answer,     *)
(*                 filters);                                               *)
(*   SpecLock      releases running FindDefinedServices,                   *)
(*                 ServicesWithPolicies and WriteUpdates concurrently on   *)
(*                 one checkout, statement by statement;                   *)
(*   SpecWrite     WriteUpdates on a checkout where manifests may be       *)
(*                 missing and writes may fail;                            *)
(*   SpecExec      EXECUTE releases whose executor takes the checkout lock *)
(*                 around WriteUpdates;                                    *)
(*   SpecHTTP      the UpdateImages handler on bounded requests;           *)
(*   SpecRegister  the daemon registration handlers, one per connection;   *)
(*   SpecJobs      the per-instance job queue.                             *)
(***************************************************************************)
EXTENDS Integers, Sequences, FiniteSets, TLC

VARIABLES
    \* ---- inputs of SelectServices (fixed by Init)
    services,        \* manifests.FindDefinedServices: ResourceID -> paths
    enumErr,         \* manifests.FindDefinedServices returns an error
    badFiles,        \* paths ioutil.ReadFile fails on
    running,         \* what cluster.SomeControllers returns (IDs, in order)
    clusterErr,      \* cluster.SomeControllers returns an error
    numFilters,      \* len(filters)
    passStatus,      \* Status of the result Filter gives when no filter rejects
    \* ---- state of the SelectServices call
    selPc,           \* "start" | "done"
    selErr,          \* the returned error ("none" for nil)
    results,         \* the result map (update.Result)
    filteredUpdates, \* the returned updates (ResourceIDs, in order)
    attached,        \* ResourceIDs whose update had Controller set
    clusterCalls,    \* the ids of each SomeControllers call
    verdicts,        \* what each filter returned for each filtered workload
    \* ---- the checkout shared by concurrent releases
    files,           \* manifest path -> bytes on disk
    rwReaders,       \* releases holding the checkout's read lock
    rwWriter,        \* release holding the checkout's write lock, or NoOne
    pc,              \* release -> position in the call it is running
    calls,           \* release -> number of calls it has made
    todo,            \* FindDefinedServices: resources still to visit
    acc,             \* FindDefinedServices: `defined` built so far
    ret,             \* release -> what its last call returned
    kept,            \* release -> the updates it holds for WriteUpdates
    queue,           \* WriteUpdates: updates still to write
    access,          \* the checkout access the last step made, or NoAccess
    fileMode,        \* manifest path -> permission bits of the file
    \* ---- the UpdateImages HTTP handler
    request,         \* the request being served
    httpPc,          \* "received" | "responded"
    response,        \* the response written
    svcCalls,        \* the calls made to service.UpdateImages for the request
    \* ---- the daemon registration handlers (doRegister)
    regPc,           \* connection -> position in doRegister
    newRPCFn,        \* connection -> the constructor its handler passed
    rpcClient,       \* connection -> doRegister's local rpcClient
    regResponse,     \* connection -> the response the handler wrote
    regLog,          \* connection -> what was done with RPC clients, in order
    \* ---- the per-instance job queue
    jobs,            \* job ID -> the persisted Job
    jobQueue,        \* instance -> QUEUED job IDs, oldest first
    submitted,       \* instance -> job IDs in the order of their Submit
    terminal,        \* instance -> job IDs in the order they became terminal
    \* ---- the executor of EXECUTE releases
    role,            \* release -> "caller" | "executor"
    exPc             \* executor -> the step it is at

selVars == <<services, enumErr, badFiles, running, clusterErr, numFilters,
             passStatus, selPc, selErr, results, filteredUpdates,
             attached, clusterCalls, verdicts>>

lockVars == <<files, rwReaders, rwWriter, pc, calls, todo, acc, ret, kept,
              queue, access, fileMode>>

httpVars == <<request, httpPc, response, svcCalls>>

regVars == <<regPc, newRPCFn, rpcClient, regResponse, regLog>>

jobVars == <<jobs, jobQueue, submitted, terminal>>

execVars == <<role, exPc>>

restVars == <<regVars, jobVars, execVars>>

vars == <<selVars, lockVars, httpVars, restVars>>

----------------------------------------------------------------------------
\* Bounds

IDs == {"a", "b"}

MaxPaths == 2

MaxRunning == 3

MaxFilters == 2

Releases == {"r1", "r2"}

MaxCalls == 2

MaxServices == 2

MaxExcludes == 2

MaxConns == 2

MaxJobs == 3

MaxUpdates == 3

----------------------------------------------------------------------------
\* Values

ReleaseStatusSuccess == "success"
ReleaseStatusSkipped == "skipped"
ReleaseStatusIgnored == "ignored"
ReleaseStatusFailed  == "failed"

NotInCluster == "not in cluster"

\* The verdict of one filter on one workload.
FilterStatuses == {ReleaseStatusSuccess, ReleaseStatusSkipped,
                   ReleaseStatusIgnored, ReleaseStatusFailed}

\* The reason filter i gives when it rejects.
Reason(i) == "filter " \o ToString(i)

ControllerResult(status, error) == [Status |-> status, Error |-> error]

Perms(S) == {p \in [1..Cardinality(S) -> S] : \A i, j \in 1..Cardinality(S) : p[i] = p[j] => i = j}

SeqsUpTo(S, n) == UNION {[1..k -> S] : k \in 0..n}

Range(s) == {s[i] : i \in 1..Len(s)}

PathsOf(id, n) == [i \in 1..n |-> <<id, i>>]

\* What the manifest enumeration can report: some of the resources, each
\* with one or more paths.
ServiceMaps ==
    UNION {{[id \in S |-> PathsOf(id, n[id])] : n \in [S -> 1..MaxPaths]} : S \in SUBSET IDs}

----------------------------------------------------------------------------
\* ControllerUpdate.Filter: the first filter that does not return success
\* decides; when none rejects the result carries passStatus.

RECURSIVE FilterFrom(_, _, _)
FilterFrom(vs, i, pass) ==
    IF i > Len(vs) THEN ControllerResult(pass, "")
    ELSE IF vs[i] # ReleaseStatusSuccess THEN ControllerResult(vs[i], Reason(i))
    ELSE FilterFrom(vs, i + 1, pass)

Filter(vs, pass) == FilterFrom(vs, 1, pass)

----------------------------------------------------------------------------
\* FindDefinedServices, lines 137-154: the loop over the enumerated
\* resources, in the order `order` the map iteration takes.

\* The loop passing over a resource with several paths instead of failing.
RECURSIVE FindDefinedLoopSkipMultiple(_, _, _, _)
FindDefinedLoopSkipMultiple(order, svc, bad, defined) ==
    IF order = <<>> THEN [err |-> "none", defined |-> defined]
    ELSE LET id == Head(order)
             paths == svc[id]
         IN  IF Len(paths) = 1
             THEN IF paths[1] \in bad
                  THEN [err |-> "readfile", defined |-> <<>>]
                  ELSE FindDefinedLoopSkipMultiple(Tail(order), svc, bad,
                           Append(defined, [ResourceID |-> id, ManifestPath |-> paths[1]]))
             ELSE FindDefinedLoopSkipMultiple(Tail(order), svc, bad, defined)

RECURSIVE FindDefinedLoop(_, _, _, _)
FindDefinedLoop(order, svc, bad, defined) ==
    IF order = <<>> THEN [err |-> "none", defined |-> defined]
    ELSE LET id == Head(order)
             paths == svc[id]
         IN  IF Len(paths) = 1
             THEN IF paths[1] \in bad
                  THEN [err |-> "readfile", defined |-> <<>>]
                  ELSE FindDefinedLoop(Tail(order), svc, bad,
                           Append(defined, [ResourceID |-> id, ManifestPath |-> paths[1]]))
             ELSE [err |-> "multiple", defined |-> <<>>]

FindDefinedServices(order, svc, eerr, bad) ==
    IF eerr THEN [err |-> "enumerate", defined |-> <<>>]
    ELSE FindDefinedLoop(order, svc, bad, <<>>)

----------------------------------------------------------------------------
\* The checkout: manifest files guarded by a reader/writer lock
\* (git.Checkout embeds a sync.RWMutex: RLock/RUnlock, Lock/Unlock).  A
\* waiting writer does not hold back new readers here, which allows every
\* interleaving the mutex allows.

NoOne == "nobody"

NoAccess == [who |-> NoOne, kind |-> "none", path |-> <<>>]

Access(r, kind, path) == [who |-> r, kind |-> kind, path |-> path]

ManifestDir == <<"dir">>

\* The files a release can read or write: the single manifest of a resource.
ManifestPaths == {<<id, 1>> : id \in IDs}

NoReturn == [err |-> "none", defined |-> <<>>]

\* The bytes release r writes: its own edit of the manifest.
EditOf(r) == r

\* A release calls the context's methods as it likes; an executor calls only
\* WriteUpdates, as its step 2, holding the lock of its step 1.
MayCall(r, first) ==
    \/ role[r] = "caller"
    \/ role[r] = "executor" /\ first = "wu_lock" /\ exPc[r] = "locked"

BeginCall(r, first) ==
    /\ pc[r] = "idle"
    /\ calls[r] < MaxCalls
    /\ MayCall(r, first)
    /\ calls' = [calls EXCEPT ![r] = @ + 1]
    /\ pc' = [pc EXCEPT ![r] = first]
    /\ access' = NoAccess

\* sync.RWMutex
CanRLock == rwWriter = NoOne
CanLock == rwWriter = NoOne /\ rwReaders = {}

\* ---- FindDefinedServices, lines 129-155

FDS_Call(r) ==
    /\ BeginCall(r, "fds_rlock")
    /\ UNCHANGED <<files, rwReaders, rwWriter, todo, acc, ret, kept, queue>>
    /\ UNCHANGED <<fileMode, selVars, httpVars, restVars>>

\* FindDefinedServices going on without taking the read lock.
FDS_NoRLock(r) ==
    /\ pc[r] = "fds_rlock"
    /\ pc' = [pc EXCEPT ![r] = "fds_enum"]
    /\ access' = NoAccess
    /\ UNCHANGED <<files, rwReaders, rwWriter, calls, todo, acc, ret, kept, queue>>
    /\ UNCHANGED <<fileMode, selVars, httpVars, restVars>>

\* line 130
FDS_RLock(r) ==
    /\ pc[r] = "fds_rlock"
    /\ CanRLock
    /\ rwReaders' = rwReaders \cup {r}
    /\ pc' = [pc EXCEPT ![r] = "fds_enum"]
    /\ access' = NoAccess
    /\ UNCHANGED <<files, rwWriter, calls, todo, acc, ret, kept, queue>>
    /\ UNCHANGED <<fileMode, selVars, httpVars, restVars>>

\* lines 132-137
FDS_Enumerate(r) ==
    /\ pc[r] = "fds_enum"
    /\ access' = Access(r, "read", ManifestDir)
    /\ \E ok \in BOOLEAN :
         IF ok
         THEN /\ todo' = [todo EXCEPT ![r] = DOMAIN services]
              /\ acc' = [acc EXCEPT ![r] = <<>>]
              /\ pc' = [pc EXCEPT ![r] = "fds_loop"]
              /\ ret' = ret
         ELSE /\ ret' = [ret EXCEPT ![r] = [err |-> "enumerate", defined |-> <<>>]]
              /\ pc' = [pc EXCEPT ![r] = "fds_ret"]
              /\ UNCHANGED <<todo, acc>>
    /\ UNCHANGED <<files, rwReaders, rwWriter, calls, kept, queue>>
    /\ UNCHANGED <<fileMode, selVars, httpVars, restVars>>

\* lines 138-154: one iteration of the loop, or its end
FDS_Loop(r) ==
    /\ pc[r] = "fds_loop"
    /\ IF todo[r] = {}
       THEN /\ ret' = [ret EXCEPT ![r] = [err |-> "none", defined |-> acc[r]]]
            /\ pc' = [pc EXCEPT ![r] = "fds_ret"]
            /\ access' = NoAccess
            /\ UNCHANGED <<todo, acc>>
       ELSE \E id \in todo[r] :
              LET paths == services[id]
              IN  IF Len(paths) = 1
                  THEN /\ access' = Access(r, "read", paths[1])
                       /\ \E ok \in BOOLEAN :
                            IF ok
                            THEN /\ acc' = [acc EXCEPT ![r] = Append(@,
                                                [ResourceID |-> id,
                                                 ManifestPath |-> paths[1],
                                                 ManifestBytes |-> files[paths[1]]])]
                                 /\ todo' = [todo EXCEPT ![r] = @ \ {id}]
                                 /\ UNCHANGED <<ret, pc>>
                            ELSE /\ ret' = [ret EXCEPT ![r] = [err |-> "readfile", defined |-> <<>>]]
                                 /\ pc' = [pc EXCEPT ![r] = "fds_ret"]
                                 /\ UNCHANGED <<todo, acc>>
                  ELSE /\ ret' = [ret EXCEPT ![r] = [err |-> "multiple", defined |-> <<>>]]
                       /\ pc' = [pc EXCEPT ![r] = "fds_ret"]
                       /\ access' = NoAccess
                       /\ UNCHANGED <<todo, acc>>
    /\ UNCHANGED <<files, rwReaders, rwWriter, calls, kept, queue>>
    /\ UNCHANGED <<fileMode, selVars, httpVars, restVars>>

\* A return without the deferred RUnlock when the call failed.
FDS_ReturnLeakOnError(r) ==
    /\ pc[r] = "fds_ret"
    /\ rwReaders' = IF ret[r].err = "none" THEN rwReaders \ {r} ELSE rwReaders
    /\ kept' = [kept EXCEPT ![r] = ret[r].defined]
    /\ todo' = [todo EXCEPT ![r] = {}]
    /\ acc' = [acc EXCEPT ![r] = <<>>]
    /\ pc' = [pc EXCEPT ![r] = "idle"]
    /\ access' = NoAccess
    /\ UNCHANGED <<files, rwWriter, calls, ret, queue>>
    /\ UNCHANGED <<fileMode, selVars, httpVars, restVars>>

\* line 131 (deferred) with the returns of lines 134, 143, 151, 154: the
\* caller keeps the updates returned.
FDS_Return(r) ==
    /\ pc[r] = "fds_ret"
    /\ rwReaders' = rwReaders \ {r}
    /\ kept' = [kept EXCEPT ![r] = ret[r].defined]
    /\ todo' = [todo EXCEPT ![r] = {}]
    /\ acc' = [acc EXCEPT ![r] = <<>>]
    /\ pc' = [pc EXCEPT ![r] = "idle"]
    /\ access' = NoAccess
    /\ UNCHANGED <<files, rwWriter, calls, ret, queue>>
    /\ UNCHANGED <<fileMode, selVars, httpVars, restVars>>

\* ---- ServicesWithPolicies, lines 158-162

SWP_Call(r) ==
    /\ BeginCall(r, "swp_rlock")
    /\ UNCHANGED <<files, rwReaders, rwWriter, todo, acc, ret, kept, queue>>
    /\ UNCHANGED <<fileMode, selVars, httpVars, restVars>>

\* line 159
SWP_RLock(r) ==
    /\ pc[r] = "swp_rlock"
    /\ CanRLock
    /\ rwReaders' = rwReaders \cup {r}
    /\ pc' = [pc EXCEPT ![r] = "swp_read"]
    /\ access' = NoAccess
    /\ UNCHANGED <<files, rwWriter, calls, todo, acc, ret, kept, queue>>
    /\ UNCHANGED <<fileMode, selVars, httpVars, restVars>>

\* line 161, then line 160 (deferred)
SWP_Read(r) ==
    /\ pc[r] = "swp_read"
    /\ access' = Access(r, "read", ManifestDir)
    /\ \E ok \in BOOLEAN :
         ret' = [ret EXCEPT ![r] = [err |-> IF ok THEN "none" ELSE "policies",
                                    defined |-> <<>>]]
    /\ pc' = [pc EXCEPT ![r] = "swp_ret"]
    /\ UNCHANGED <<files, rwReaders, rwWriter, calls, todo, acc, kept, queue>>
    /\ UNCHANGED <<fileMode, selVars, httpVars, restVars>>

SWP_Return(r) ==
    /\ pc[r] = "swp_ret"
    /\ rwReaders' = rwReaders \ {r}
    /\ pc' = [pc EXCEPT ![r] = "idle"]
    /\ access' = NoAccess
    /\ UNCHANGED <<files, rwWriter, calls, todo, acc, ret, kept, queue>>
    /\ UNCHANGED <<fileMode, selVars, httpVars, restVars>>

\* ---- WriteUpdates, lines 41-57

\* The release passes the updates it found, each with its edited bytes.
WU_Call(r) ==
    /\ BeginCall(r, "wu_lock")
    /\ queue' = [queue EXCEPT ![r] =
                   [i \in 1..Len(kept[r]) |->
                       [ManifestPath |-> kept[r][i].ManifestPath,
                        ManifestBytes |-> EditOf(r)]]]
    /\ UNCHANGED <<files, rwReaders, rwWriter, todo, acc, ret, kept>>
    /\ UNCHANGED <<fileMode, selVars, httpVars, restVars>>

\* WriteUpdates going on without taking the write lock.
WU_NoLock(r) ==
    /\ pc[r] = "wu_lock"
    /\ pc' = [pc EXCEPT ![r] = "wu_loop"]
    /\ access' = NoAccess
    /\ UNCHANGED <<files, rwReaders, rwWriter, calls, todo, acc, ret, kept, queue>>
    /\ UNCHANGED <<fileMode, selVars, httpVars, restVars>>

\* line 42
WU_Lock(r) ==
    /\ pc[r] = "wu_lock"
    /\ CanLock
    /\ rwWriter' = r
    /\ pc' = [pc EXCEPT ![r] = "wu_loop"]
    /\ access' = NoAccess
    /\ UNCHANGED <<files, rwReaders, calls, todo, acc, ret, kept, queue>>
    /\ UNCHANGED <<fileMode, selVars, httpVars, restVars>>

\* line 46: os.Stat fails on a path that does not exist, and may fail on one
\* that does
StatFails(path, statOk) == ~statOk \/ files[path] = "absent"

\* The mode of path after ioutil.WriteFile(path, _, perm) opened it: perm is
\* used only when the file is created.
WriteFileMode(path, perm) ==
    IF files[path] = "absent" THEN perm ELSE fileMode[path]

\* lines 45-54: one iteration of the loop (os.Stat, ioutil.WriteFile), or its
\* end
WU_Loop(r) ==
    /\ pc[r] = "wu_loop"
    /\ IF queue[r] = <<>>
       THEN /\ ret' = [ret EXCEPT ![r] = NoReturn]
            /\ pc' = [pc EXCEPT ![r] = "wu_ret"]
            /\ access' = NoAccess
            /\ UNCHANGED <<files, fileMode, queue>>
       ELSE LET u == Head(queue[r])
                fi == fileMode[u.ManifestPath]
            IN  \E statOk \in BOOLEAN, writeOk \in BOOLEAN, truncated \in BOOLEAN :
                  IF StatFails(u.ManifestPath, statOk)
                  THEN /\ ret' = [ret EXCEPT ![r] = [err |-> "stat", defined |-> <<>>]]
                       /\ pc' = [pc EXCEPT ![r] = "wu_ret"]
                       /\ access' = NoAccess
                       /\ UNCHANGED <<files, fileMode, queue>>
                  ELSE IF ~writeOk
                  THEN \* a failed WriteFile may have opened and truncated the file
                       /\ ret' = [ret EXCEPT ![r] = [err |-> "write", defined |-> <<>>]]
                       /\ pc' = [pc EXCEPT ![r] = "wu_ret"]
                       /\ access' = Access(r, "write", u.ManifestPath)
                       /\ files' = IF truncated
                                   THEN [files EXCEPT ![u.ManifestPath] = "partial"]
                                   ELSE files
                       /\ fileMode' = IF truncated
                                      THEN [fileMode EXCEPT ![u.ManifestPath] =
                                               WriteFileMode(u.ManifestPath, fi)]
                                      ELSE fileMode
                       /\ UNCHANGED queue
                  ELSE /\ files' = [files EXCEPT ![u.ManifestPath] = u.ManifestBytes]
                       /\ fileMode' = [fileMode EXCEPT ![u.ManifestPath] =
                                          WriteFileMode(u.ManifestPath, fi)]
                       /\ queue' = [queue EXCEPT ![r] = Tail(@)]
                       /\ access' = Access(r, "write", u.ManifestPath)
                       /\ UNCHANGED <<ret, pc>>
    /\ UNCHANGED <<rwReaders, rwWriter, calls, todo, acc, kept>>
    /\ UNCHANGED <<selVars, httpVars, restVars>>

\* line 43 (deferred) with the return of line 56
WU_Return(r) ==
    /\ pc[r] = "wu_ret"
    /\ rwWriter' = NoOne
    /\ queue' = [queue EXCEPT ![r] = <<>>]
    /\ pc' = [pc EXCEPT ![r] = "idle"]
    /\ access' = NoAccess
    /\ UNCHANGED <<files, rwReaders, calls, todo, acc, ret, kept>>
    /\ UNCHANGED <<fileMode, selVars, httpVars, restVars>>

\* The checkout with no release running.
LockIdle ==
    /\ files = [p \in ManifestPaths |-> "v0"]
    /\ rwReaders = {}
    /\ rwWriter = NoOne
    /\ pc = [r \in Releases |-> "idle"]
    /\ calls = [r \in Releases |-> 0]
    /\ todo = [r \in Releases |-> {}]
    /\ acc = [r \in Releases |-> <<>>]
    /\ ret = [r \in Releases |-> NoReturn]
    /\ kept = [r \in Releases |-> <<>>]
    /\ queue = [r \in Releases |-> <<>>]
    /\ access = NoAccess
    /\ fileMode = [p \in ManifestPaths |-> "0644"]

\* SelectServices not in use.
SelectIdle ==
    /\ enumErr = FALSE
    /\ badFiles = {}
    /\ running = <<>>
    /\ clusterErr = FALSE
    /\ numFilters = 0
    /\ passStatus = ""
    /\ selPc = "idle"
    /\ selErr = "none"
    /\ results = <<>>
    /\ filteredUpdates = <<>>
    /\ attached = {}
    /\ clusterCalls = <<>>
    /\ verdicts = <<>>

NoResponse == [code |-> 0, body |-> ""]

\* The protocol versions a daemon can register with.
Versions == {"V6", "V7", "V8"}

\* The connections made to the registration routes.
Conns == 1..MaxConns

NoClient == [version |-> "none", conn |-> 0]

\* No daemon has connected.
RegIdle ==
    /\ regPc = [c \in Conns |-> "idle"]
    /\ newRPCFn = [c \in Conns |-> "none"]
    /\ rpcClient = [c \in Conns |-> NoClient]
    /\ regResponse = [c \in Conns |-> NoResponse]
    /\ regLog = [c \in Conns |-> <<>>]

Instances == {"i1", "i2"}

JobIDs == 1..MaxJobs

NoJob == [instance |-> "none", status |-> "NONE", error |-> ""]

\* No job has been submitted.
JobIdle ==
    /\ jobs = [j \in JobIDs |-> NoJob]
    /\ jobQueue = [i \in Instances |-> <<>>]
    /\ submitted = [i \in Instances |-> <<>>]
    /\ terminal = [i \in Instances |-> <<>>]

\* No EXECUTE release is running.
ExecIdle ==
    /\ role = [r \in Releases |-> "caller"]
    /\ exPc = [r \in Releases |-> "none"]

RestIdle == RegIdle /\ JobIdle /\ ExecIdle

\* The handler not in use.
HttpIdle ==
    /\ request = [formOK |-> TRUE, service |-> <<>>, image |-> "", kind |-> "",
                  exclude |-> <<>>, service_answer |-> "ok"]
    /\ httpPc = "idle"
    /\ response = NoResponse
    /\ svcCalls = <<>>

InitLock ==
    /\ services \in ServiceMaps
    /\ SelectIdle
    /\ LockIdle
    /\ HttpIdle
    /\ RestIdle

NextLock ==
    \E r \in Releases :
        \/ FDS_Call(r)
        \/ FDS_RLock(r)
        \/ FDS_Enumerate(r)
        \/ FDS_Loop(r)
        \/ FDS_Return(r)
        \/ SWP_Call(r)
        \/ SWP_RLock(r)
        \/ SWP_Read(r)
        \/ SWP_Return(r)
        \/ WU_Call(r)
        \/ WU_Lock(r)
        \/ WU_Loop(r)
        \/ WU_Return(r)

SpecLock == InitLock /\ [][NextLock]_vars

\* ---- WriteUpdates on a checkout where manifests may be missing

\* The manifest files of the checkout.
WritePaths == ManifestPaths \cup {<<id, 2>> : id \in IDs}

\* The update lists a release can hold: any manifests, in any order.
UpdateLists ==
    SeqsUpTo({[ResourceID |-> p[1], ManifestPath |-> p, ManifestBytes |-> "v0"] :
                 p \in WritePaths}, MaxUpdates)

\* Each release has computed its updates, has one call left and holds the
\* same list; some of the manifests are gone from the checkout.
InitWrite ==
    /\ services = <<>>
    /\ SelectIdle
    /\ HttpIdle
    /\ RestIdle
    /\ files \in [WritePaths -> {"v0", "absent"}]
    /\ fileMode = [p \in WritePaths |->
                      IF files[p] = "absent" THEN "none"
                      ELSE IF p[2] = 1 THEN "0644" ELSE "0600"]
    /\ rwReaders = {}
    /\ rwWriter = NoOne
    /\ pc = [r \in Releases |-> "idle"]
    /\ calls = [r \in Releases |-> MaxCalls - 1]
    /\ todo = [r \in Releases |-> {}]
    /\ acc = [r \in Releases |-> <<>>]
    /\ ret = [r \in Releases |-> NoReturn]
    /\ \E l \in UpdateLists : kept = [r \in Releases |-> l]
    /\ queue = [r \in Releases |-> <<>>]
    /\ access = NoAccess

NextWrite ==
    \E r \in Releases :
        \/ WU_Call(r)
        \/ WU_Lock(r)
        \/ WU_Loop(r)
        \/ WU_Return(r)

SpecWrite == InitWrite /\ [][NextWrite]_vars

\* ---- The executor of an EXECUTE release around WriteUpdates

\* The executor's steps on the checkout lock: step 1 acquires the repository
\* exclusive lock; step 2 is the WriteUpdates call (WU_Call to WU_Return);
\* steps 3 to 6 (commit, push, apply, release the lock) follow once
\* WriteUpdates has returned.
Executor(r) ==
    /\ role[r] = "executor"
    /\ pc[r] = "idle"
    /\ IF exPc[r] = "start"
       THEN /\ CanLock
            /\ rwWriter' = r
            /\ exPc' = [exPc EXCEPT ![r] = "locked"]
       ELSE /\ exPc[r] = "locked"
            /\ calls[r] = MaxCalls
            /\ rwWriter' = NoOne
            /\ exPc' = [exPc EXCEPT ![r] = "done"]
    /\ access' = NoAccess
    /\ UNCHANGED <<files, fileMode, rwReaders, pc, calls, todo, acc, ret, kept, queue>>
    /\ UNCHANGED <<role, selVars, httpVars, regVars, jobVars>>

\* The one SUCCESS entry of an executor's plan.
PlannedUpdates ==
    <<[ResourceID |-> "a", ManifestPath |-> <<"a", 1>>, ManifestBytes |-> "v0"]>>

\* Some releases are EXECUTE releases at their executor, with their planned
\* updates and the WriteUpdates call left to make; the others use the context
\* directly.
InitExec ==
    /\ services \in ServiceMaps
    /\ SelectIdle
    /\ HttpIdle
    /\ RegIdle
    /\ JobIdle
    /\ role \in [Releases -> {"caller", "executor"}]
    /\ \E r \in Releases : role[r] = "executor"
    /\ exPc = [r \in Releases |-> IF role[r] = "executor" THEN "start" ELSE "none"]
    /\ files = [p \in ManifestPaths |-> "v0"]
    /\ fileMode = [p \in ManifestPaths |-> "0644"]
    /\ rwReaders = {}
    /\ rwWriter = NoOne
    /\ pc = [r \in Releases |-> "idle"]
    /\ calls = [r \in Releases |-> IF role[r] = "executor" THEN MaxCalls - 1 ELSE 0]
    /\ todo = [r \in Releases |-> {}]
    /\ acc = [r \in Releases |-> <<>>]
    /\ ret = [r \in Releases |-> NoReturn]
    /\ kept = [r \in Releases |-> IF role[r] = "executor" THEN PlannedUpdates ELSE <<>>]
    /\ queue = [r \in Releases |-> <<>>]
    /\ access = NoAccess

NextExec ==
    \/ NextLock
    \/ \E r \in Releases : Executor(r)

SpecExec == InitExec /\ [][NextExec]_vars

----------------------------------------------------------------------------
\* SelectServices, lines 73-126.

\* lines 73-78: ids; definedMap has the same IDs as its keys.
IdsOf(defined) == [i \in 1..Len(defined) |-> defined[i].ResourceID]

\* The loop of lines 86-97 without the delete of line 96.
RECURSIVE CompareLoopNoDelete(_, _, _)
CompareLoopNoDelete(svcs, definedMap, updates) ==
    IF svcs = <<>> THEN [definedMap |-> definedMap, updates |-> updates]
    ELSE LET s == Head(svcs)
         IN  IF s \notin definedMap
             THEN CompareLoopNoDelete(Tail(svcs), definedMap, updates)
             ELSE CompareLoopNoDelete(Tail(svcs), definedMap, Append(updates, s))

\* lines 86-97: definedMap is the set of IDs still in the map.
RECURSIVE CompareLoop(_, _, _)
CompareLoop(svcs, definedMap, updates) ==
    IF svcs = <<>> THEN [definedMap |-> definedMap, updates |-> updates]
    ELSE LET s == Head(svcs)
         IN  IF s \notin definedMap
             THEN CompareLoop(Tail(svcs), definedMap, updates)
             ELSE CompareLoop(Tail(svcs), definedMap \ {s}, Append(updates, s))

\* The loop of lines 99-107 recording a result only for a rejected workload.
RECURSIVE FilterUpdatesLoopRejectedOnly(_, _, _, _, _)
FilterUpdatesLoopRejectedOnly(updates, v, pass, res, filtered) ==
    IF updates = <<>> THEN [results |-> res, filteredUpdates |-> filtered]
    ELSE LET s == Head(updates)
             fr == Filter(v[s], pass)
             res2 == [id \in DOMAIN res \cup {s} |-> IF id = s THEN fr ELSE res[id]]
         IN  IF fr.Status = ReleaseStatusSuccess \/ fr.Status = ""
             THEN FilterUpdatesLoopRejectedOnly(Tail(updates), v, pass, res, Append(filtered, s))
             ELSE FilterUpdatesLoopRejectedOnly(Tail(updates), v, pass, res2, filtered)

\* The loop of lines 99-107 keeping every workload that is neither SKIPPED
\* nor FAILED.
RECURSIVE FilterUpdatesLoopKeepIgnored(_, _, _, _, _)
FilterUpdatesLoopKeepIgnored(updates, v, pass, res, filtered) ==
    IF updates = <<>> THEN [results |-> res, filteredUpdates |-> filtered]
    ELSE LET s == Head(updates)
             fr == Filter(v[s], pass)
             res2 == [id \in DOMAIN res \cup {s} |-> IF id = s THEN fr ELSE res[id]]
         IN  IF fr.Status \notin {ReleaseStatusSkipped, ReleaseStatusFailed}
             THEN FilterUpdatesLoopKeepIgnored(Tail(updates), v, pass, res2, Append(filtered, s))
             ELSE FilterUpdatesLoopKeepIgnored(Tail(updates), v, pass, res2, filtered)

\* lines 99-107
RECURSIVE FilterUpdatesLoop(_, _, _, _, _)
FilterUpdatesLoop(updates, v, pass, res, filtered) ==
    IF updates = <<>> THEN [results |-> res, filteredUpdates |-> filtered]
    ELSE LET s == Head(updates)
             fr == Filter(v[s], pass)
             res2 == [id \in DOMAIN res \cup {s} |-> IF id = s THEN fr ELSE res[id]]
         IN  IF fr.Status = ReleaseStatusSuccess \/ fr.Status = ""
             THEN FilterUpdatesLoop(Tail(updates), v, pass, res2, Append(filtered, s))
             ELSE FilterUpdatesLoop(Tail(updates), v, pass, res2, filtered)

\* The loop of lines 109-117 without the test of line 114.
FilterMissingKeepAll(definedMap, v, pass, res) ==
    [results |-> [id \in DOMAIN res \cup definedMap |->
                     IF id \in definedMap THEN Filter(v[id], pass) ELSE res[id]],
     filteredDefined |-> definedMap]

\* lines 109-117
FilterMissing(definedMap, v, pass, res) ==
    [results |-> [id \in DOMAIN res \cup definedMap |->
                     IF id \in definedMap THEN Filter(v[id], pass) ELSE res[id]],
     filteredDefined |-> {k \in definedMap : Filter(v[k], pass).Status # ReleaseStatusIgnored}]

\* Without the loop of lines 119-125.
MarkSkippedNothing(filteredDefined, res) == res

\* lines 119-125
MarkSkipped(filteredDefined, res) ==
    [id \in DOMAIN res \cup filteredDefined |->
        IF id \in filteredDefined
        THEN ControllerResult(ReleaseStatusSkipped, NotInCluster)
        ELSE res[id]]

SelectReturn(err, res, filtered, att, ccalls, v) ==
    /\ selPc' = "done"
    /\ selErr' = err
    /\ results' = res
    /\ filteredUpdates' = filtered
    /\ attached' = att
    /\ clusterCalls' = ccalls
    /\ verdicts' = v
    /\ UNCHANGED <<services, enumErr, badFiles, running, clusterErr,
                   numFilters, passStatus>>
    /\ UNCHANGED <<lockVars, httpVars, restVars>>

SelectServices ==
    /\ selPc = "start"
    /\ \E order \in Perms(DOMAIN services) :
         LET fds == FindDefinedServices(order, services, enumErr, badFiles)
         IN  IF fds.err # "none"
             THEN SelectReturn(fds.err, results, <<>>, {}, clusterCalls, verdicts)
             ELSE LET ids == IdsOf(fds.defined)
                      ccalls == Append(clusterCalls, ids)
                  IN  IF clusterErr
                      THEN SelectReturn("cluster", results, <<>>, {}, ccalls, verdicts)
                      ELSE \E v \in [Range(ids) -> [1..numFilters -> FilterStatuses]] :
                             LET cmp == CompareLoop(running, Range(ids), <<>>)
                                 fu  == FilterUpdatesLoop(cmp.updates, v, passStatus, results, <<>>)
                                 fm  == FilterMissing(cmp.definedMap, v, passStatus, fu.results)
                                 res == MarkSkipped(fm.filteredDefined, fm.results)
                             IN  SelectReturn("none", res, fu.filteredUpdates,
                                              Range(cmp.updates), ccalls, v)

InitSelect ==
    /\ services \in ServiceMaps
    /\ enumErr \in BOOLEAN
    /\ badFiles \in SUBSET {<<id, 1>> : id \in IDs}
    /\ running \in SeqsUpTo(IDs, MaxRunning)
    /\ clusterErr \in BOOLEAN
    /\ numFilters \in 0..MaxFilters
    /\ passStatus \in {"", ReleaseStatusSuccess}
    /\ selPc = "start"
    /\ selErr = "none"
    /\ results = <<>>
    /\ filteredUpdates = <<>>
    /\ attached = {}
    /\ clusterCalls = <<>>
    /\ verdicts = <<>>
    /\ LockIdle
    /\ HttpIdle
    /\ RestIdle

NextSelect == SelectServices

SpecSelect == InitSelect /\ [][NextSelect]_vars

----------------------------------------------------------------------------
\* The UpdateImages handler, src/service/http/server.go lines 159-215.

ResourceSpecAll == "<all>"
ImageSpecLatest == "<all latest>"
ReleaseKindPlan == "plan"
ReleaseKindExecute == "execute"

\* Form and URL values a request can carry.
ServiceStrings == {ResourceSpecAll, "default:deployment/a", "deployment/b", "invalid&controller"}
ImageStrings == {ImageSpecLatest, "alpine:latest", "alpine"}
KindStrings == {ReleaseKindPlan, ReleaseKindExecute, ""}
ExcludeStrings == {"default:deployment/a", "deployment/b", "invalid&controller"}

\* What service.UpdateImages can answer: a job ID, or an error of some kind.
ServiceOutcomes == {"ok", "user", "server", "missing", "fatal"}

ParseOK(v) == [ok |-> TRUE, value |-> v]
ParseError == [ok |-> FALSE, value |-> ""]

\* flux.ParseResourceID: <namespace>:<kind>/<name>; the namespace defaults
\* to "default" in the unqualified form.
ParseResourceID(str) ==
    CASE str = "default:deployment/a" -> ParseOK("default:deployment/a")
      [] str = "default:deployment/b" -> ParseOK("default:deployment/b")
      [] str = "deployment/a" -> ParseOK("default:deployment/a")
      [] str = "deployment/b" -> ParseOK("default:deployment/b")
      [] OTHER -> ParseError

\* update.ParseResourceSpec: the sentinel ALL, or a ResourceID.
ParseResourceSpec(str) ==
    IF str = ResourceSpecAll THEN ParseOK(ResourceSpecAll) ELSE ParseResourceID(str)

\* update.ParseImageSpec: LATEST, or an image reference with a tag.
ParseImageSpec(str) ==
    CASE str = ImageSpecLatest -> ParseOK(ImageSpecLatest)
      [] str = "alpine:latest" -> ParseOK("alpine:latest")
      [] OTHER -> ParseError

\* update.ParseReleaseKind
ParseReleaseKind(str) ==
    IF str \in {ReleaseKindPlan, ReleaseKindExecute} THEN ParseOK(str) ELSE ParseError

\* transport.ErrorResponse: the status of an error of the service.
ErrorStatus(kind) ==
    CASE kind = "user" -> 422
      [] kind = "missing" -> 404
      [] kind = "fatal" -> 502
      [] OTHER -> 500

StatusBadRequest == 400
StatusOK == 200

\* lines 170-178: nil error and the specs, or the first service that does not
\* parse.
RECURSIVE ParseServiceSpecs(_, _)
ParseServiceSpecs(vals, serviceSpecs) ==
    IF vals = <<>> THEN [ok |-> TRUE, specs |-> serviceSpecs]
    ELSE LET serviceSpec == ParseResourceSpec(Head(vals))
         IN  IF ~serviceSpec.ok
             THEN [ok |-> FALSE, specs |-> <<>>]
             ELSE ParseServiceSpecs(Tail(vals), Append(serviceSpecs, serviceSpec.value))

\* The loop of lines 190-198 going on to the next value when one does not
\* parse.
RECURSIVE ParseExcludesSkipBad(_, _)
ParseExcludesSkipBad(vals, excludes) ==
    IF vals = <<>> THEN [ok |-> TRUE, ids |-> excludes]
    ELSE LET ex == ParseResourceID(Head(vals))
         IN  IF ~ex.ok
             THEN ParseExcludesSkipBad(Tail(vals), excludes)
             ELSE ParseExcludesSkipBad(Tail(vals), Append(excludes, ex.value))

\* lines 190-198
RECURSIVE ParseExcludes(_, _)
ParseExcludes(vals, excludes) ==
    IF vals = <<>> THEN [ok |-> TRUE, ids |-> excludes]
    ELSE LET ex == ParseResourceID(Head(vals))
         IN  IF ~ex.ok
             THEN [ok |-> FALSE, ids |-> <<>>]
             ELSE ParseExcludes(Tail(vals), Append(excludes, ex.value))

BadRequest(what) == [response |-> [code |-> StatusBadRequest, body |-> what],
                     calls |-> <<>>]

\* lines 159-215: the response, and the calls made to the service.
HandleUpdateImages(req) ==
    IF ~req.formOK THEN BadRequest("parsing form")
    ELSE LET serviceSpecs == ParseServiceSpecs(req.service, <<>>)
             imageSpec == ParseImageSpec(req.image)
             releaseKind == ParseReleaseKind(req.kind)
             excludes == ParseExcludes(req.exclude, <<>>)
         IN  IF ~serviceSpecs.ok THEN BadRequest("parsing service spec")
             ELSE IF ~imageSpec.ok THEN BadRequest("parsing image spec")
             ELSE IF ~releaseKind.ok THEN BadRequest("parsing release kind")
             ELSE IF ~excludes.ok THEN BadRequest("parsing excluded service")
             ELSE LET spec == [ServiceSpecs |-> serviceSpecs.specs,
                               ImageSpec |-> imageSpec.value,
                               Kind |-> releaseKind.value,
                               Excludes |-> excludes.ids]
                  IN  [response |-> IF req.service_answer = "ok"
                                    THEN [code |-> StatusOK, body |-> "jobID"]
                                    ELSE [code |-> ErrorStatus(req.service_answer),
                                          body |-> req.service_answer],
                       calls |-> <<spec>>]

UpdateImages ==
    /\ httpPc = "received"
    /\ LET out == HandleUpdateImages(request)
       IN  /\ response' = out.response
           /\ svcCalls' = svcCalls \o out.calls
    /\ httpPc' = "responded"
    /\ UNCHANGED request
    /\ UNCHANGED <<selVars, lockVars, restVars>>

Requests ==
    [formOK : BOOLEAN,
     service : SeqsUpTo(ServiceStrings, MaxServices),
     image : ImageStrings,
     kind : KindStrings,
     exclude : SeqsUpTo(ExcludeStrings, MaxExcludes),
     service_answer : ServiceOutcomes]

InitHTTP ==
    /\ request \in Requests
    /\ httpPc = "received"
    /\ response = NoResponse
    /\ svcCalls = <<>>
    /\ services = <<>>
    /\ SelectIdle
    /\ LockIdle
    /\ RestIdle

NextHTTP == UpdateImages

SpecHTTP == InitHTTP /\ [][NextHTTP]_vars

----------------------------------------------------------------------------
\* Daemon registration: RegisterV6 / RegisterV7 / RegisterV8 and doRegister
\* (server.go:434-485), one handler per connection.

\* rpc.NewClientV6 / V7 / V8: an RPC client of one version over conn.
NewClient(version, conn) == [version |-> version, conn |-> conn]

RegEvent(op, client) == [op |-> op, client |-> client]

\* The handler of a registration route calls doRegister with the constructor
\* of its version.
DoRegisterCall(c, version) ==
    /\ regPc[c] = "idle"
    /\ newRPCFn' = [newRPCFn EXCEPT ![c] = version]
    /\ regPc' = [regPc EXCEPT ![c] = "upgrade"]
    /\ UNCHANGED <<rpcClient, regResponse, regLog>>
    /\ UNCHANGED <<selVars, lockVars, httpVars, jobVars, execVars>>

RegisterV6(c) == DoRegisterCall(c, "V6")

RegisterV7(c) == DoRegisterCall(c, "V7")

RegisterV8(c) == DoRegisterCall(c, "V8")

\* lines 466-471 without the return of line 470
DoRegister_UpgradeNoReturn(c) ==
    /\ regPc[c] = "upgrade"
    /\ \E ok \in BOOLEAN :
         /\ regResponse' = IF ok THEN regResponse
                           ELSE [regResponse EXCEPT ![c] =
                                    [code |-> StatusBadRequest, body |-> "upgrade"]]
         /\ regLog' = IF ok THEN regLog
                      ELSE [regLog EXCEPT ![c] =
                               Append(@, RegEvent("upgrade_failed", NoClient))]
    /\ regPc' = [regPc EXCEPT ![c] = "new"]
    /\ UNCHANGED <<newRPCFn, rpcClient>>
    /\ UNCHANGED <<selVars, lockVars, httpVars, jobVars, execVars>>

\* lines 466-471: websocket.Upgrade, and the 400 when it fails
DoRegister_Upgrade(c) ==
    /\ regPc[c] = "upgrade"
    /\ \E ok \in BOOLEAN :
         IF ok
         THEN /\ regPc' = [regPc EXCEPT ![c] = "new"]
              /\ UNCHANGED <<regResponse, regLog>>
         ELSE /\ regResponse' = [regResponse EXCEPT ![c] =
                                    [code |-> StatusBadRequest, body |-> "upgrade"]]
              /\ regLog' = [regLog EXCEPT ![c] =
                               Append(@, RegEvent("upgrade_failed", NoClient))]
              /\ regPc' = [regPc EXCEPT ![c] = "done"]
    /\ UNCHANGED <<newRPCFn, rpcClient>>
    /\ UNCHANGED <<selVars, lockVars, httpVars, jobVars, execVars>>

\* line 475: rpcClient := newRPCFn(ws)
DoRegister_NewClient(c) ==
    /\ regPc[c] = "new"
    /\ rpcClient' = [rpcClient EXCEPT ![c] = NewClient(newRPCFn[c], c)]
    /\ regLog' = [regLog EXCEPT ![c] = Append(@, RegEvent("new", rpcClient'[c]))]
    /\ regPc' = [regPc EXCEPT ![c] = "register"]
    /\ UNCHANGED <<newRPCFn, regResponse>>
    /\ UNCHANGED <<selVars, lockVars, httpVars, jobVars, execVars>>

\* line 480: s.service.RegisterDaemon(ctx, rpcClient) is called and blocks
DoRegister_RegisterDaemon(c) ==
    /\ regPc[c] = "register"
    /\ regLog' = [regLog EXCEPT ![c] = Append(@, RegEvent("register", rpcClient[c]))]
    /\ regPc' = [regPc EXCEPT ![c] = "serving"]
    /\ UNCHANGED <<newRPCFn, rpcClient, regResponse>>
    /\ UNCHANGED <<selVars, lockVars, httpVars, jobVars, execVars>>

\* line 480: RegisterDaemon returns (the daemon disconnected, or an error,
\* which the handler ignores)
DoRegister_DaemonReturns(c) ==
    /\ regPc[c] = "serving"
    /\ regLog' = [regLog EXCEPT ![c] = Append(@, RegEvent("returned", rpcClient[c]))]
    /\ regPc' = [regPc EXCEPT ![c] = "close"]
    /\ UNCHANGED <<newRPCFn, rpcClient, regResponse>>
    /\ UNCHANGED <<selVars, lockVars, httpVars, jobVars, execVars>>

\* line 484: rpcClient.Close()
DoRegister_Close(c) ==
    /\ regPc[c] = "close"
    /\ regLog' = [regLog EXCEPT ![c] = Append(@, RegEvent("close", rpcClient[c]))]
    /\ regPc' = [regPc EXCEPT ![c] = "done"]
    /\ UNCHANGED <<newRPCFn, rpcClient, regResponse>>
    /\ UNCHANGED <<selVars, lockVars, httpVars, jobVars, execVars>>

InitRegister ==
    /\ services = <<>>
    /\ SelectIdle
    /\ LockIdle
    /\ HttpIdle
    /\ RestIdle

NextRegister ==
    \E c \in Conns :
        \/ RegisterV6(c)
        \/ RegisterV7(c)
        \/ RegisterV8(c)
        \/ DoRegister_Upgrade(c)
        \/ DoRegister_NewClient(c)
        \/ DoRegister_RegisterDaemon(c)
        \/ DoRegister_DaemonReturns(c)
        \/ DoRegister_Close(c)

SpecRegister == InitRegister /\ [][NextRegister]_vars

----------------------------------------------------------------------------
\* The per-instance job queue behind service.UpdateImages (server.go:200-214
\* submits a job and answers its ID).

\* The jobs of instance i that are RUNNING.
RunningJobs(i) ==
    {j \in JobIDs : jobs[j].instance = i /\ jobs[j].status = "RUNNING"}

\* Submit(spec, cause) -> id: the job is QUEUED and the ID returned.
Submit(i, j) ==
    /\ jobs[j] = NoJob
    /\ jobs' = [jobs EXCEPT ![j] =
                   [instance |-> i, status |-> "QUEUED", error |-> ""]]
    /\ jobQueue' = [jobQueue EXCEPT ![i] = Append(@, j)]
    /\ submitted' = [submitted EXCEPT ![i] = Append(@, j)]
    /\ UNCHANGED terminal
    /\ UNCHANGED <<selVars, lockVars, httpVars, regVars, execVars>>

\* A worker that takes the newest QUEUED job instead of the oldest.
StartNewest(i) ==
    /\ RunningJobs(i) = {}
    /\ jobQueue[i] # <<>>
    /\ LET j == jobQueue[i][Len(jobQueue[i])]
       IN  /\ jobs' = [jobs EXCEPT ![j].status = "RUNNING"]
           /\ jobQueue' = [jobQueue EXCEPT ![i] = SubSeq(@, 1, Len(@) - 1)]
    /\ UNCHANGED <<submitted, terminal>>
    /\ UNCHANGED <<selVars, lockVars, httpVars, regVars, execVars>>

\* The instance's worker takes the oldest QUEUED job when none is RUNNING.
Start(i) ==
    /\ RunningJobs(i) = {}
    /\ jobQueue[i] # <<>>
    /\ LET j == Head(jobQueue[i])
       IN  /\ jobs' = [jobs EXCEPT ![j].status = "RUNNING"]
           /\ jobQueue' = [jobQueue EXCEPT ![i] = Tail(@)]
    /\ UNCHANGED <<submitted, terminal>>
    /\ UNCHANGED <<selVars, lockVars, httpVars, regVars, execVars>>

\* The RUNNING job ends: SUCCEEDED, or FAILED with the release's error.
Finish(i) ==
    /\ \E j \in RunningJobs(i), ok \in BOOLEAN :
         /\ jobs' = [jobs EXCEPT ![j].status = IF ok THEN "SUCCEEDED" ELSE "FAILED",
                                 ![j].error = IF ok THEN "" ELSE "release failed"]
         /\ terminal' = [terminal EXCEPT ![i] = Append(@, j)]
    /\ UNCHANGED <<jobQueue, submitted>>
    /\ UNCHANGED <<selVars, lockVars, httpVars, regVars, execVars>>

\* The instance loses its daemon while a job is RUNNING: the job is FAILED.
DaemonDisconnected(i) ==
    /\ \E j \in RunningJobs(i) :
         /\ jobs' = [jobs EXCEPT ![j].status = "FAILED",
                                 ![j].error = "daemon disconnected"]
         /\ terminal' = [terminal EXCEPT ![i] = Append(@, j)]
    /\ UNCHANGED <<jobQueue, submitted>>
    /\ UNCHANGED <<selVars, lockVars, httpVars, regVars, execVars>>

InitJobs ==
    /\ services = <<>>
    /\ SelectIdle
    /\ LockIdle
    /\ HttpIdle
    /\ RestIdle

NextJobs ==
    \E i \in Instances :
        \/ \E j \in JobIDs : Submit(i, j)
        \/ Start(i)
        \/ Finish(i)
        \/ DaemonDisconnected(i)

SpecJobs == InitJobs /\ [][NextJobs]_vars

----------------------------------------------------------------------------
\* Properties of SelectServices (checked under SpecSelect)

SelOK == selPc = "done" /\ selErr = "none"

Defined == DOMAIN services

IsRunning(id) == id \in Range(running)

\* The filters (by position) that rejected workload id.
Rejecting(id) == {i \in 1..numFilters : verdicts[id][i] # ReleaseStatusSuccess}

Rejected(id) == Rejecting(id) # {}

\* The verdict of the first filter, in the given order, that rejected id.
FirstVerdict(id) ==
    LET i == CHOOSE k \in Rejecting(id) : \A j \in Rejecting(id) : k <= j
    IN  ControllerResult(verdicts[id][i], Reason(i))

SkippedNotInCluster == ControllerResult(ReleaseStatusSkipped, NotInCluster)

\* C1 (as claimed): after SelectServices returns without error every defined
\* workload has a result entry whose status is one of the four statuses.
C1_TotalResultDefinedStatus ==
    SelOK => \A id \in Defined :
                 /\ id \in DOMAIN results
                 /\ results[id].Status \in FilterStatuses

\* C1 (amended): after SelectServices returns without error every defined
\* workload has a result entry; its status is SKIPPED, IGNORED or FAILED,
\* except for a running workload that no filter rejected,
\* whose entry carries the status Filter returns for a pass (possibly empty).
C1_TotalResult ==
    SelOK => \A id \in Defined :
                 /\ id \in DOMAIN results
                 /\ \/ results[id].Status \in FilterStatuses \ {ReleaseStatusSuccess}
                    \/ /\ IsRunning(id)
                       /\ ~Rejected(id)
                       /\ results[id] = ControllerResult(passStatus, "")

C1_Witness ==
    /\ SelOK
    /\ \E id \in Defined : ~IsRunning(id)
    /\ \E id \in Defined : IsRunning(id) /\ ~Rejected(id) /\ numFilters > 0
                           /\ results[id].Status = ""

\* C2 (as claimed): for every workload recorded by SelectServices that some
\* filter rejected, running or not, the recorded status and reason are those
\* of the first rejecting filter.
C2_FirstFilterWinsAll ==
    SelOK => \A id \in Defined : Rejected(id) => results[id] = FirstVerdict(id)

\* C2 (amended): the recorded status and reason are those of the first
\* rejecting filter for every running workload, and for a workload that is
\* not running only when that verdict is IGNORED; any other verdict on a
\* workload that is not running is replaced by SKIPPED "not in cluster".
C2_FirstFilterWins ==
    SelOK => \A id \in Defined :
                 Rejected(id) =>
                     results[id] =
                         IF IsRunning(id) \/ FirstVerdict(id).Status = ReleaseStatusIgnored
                         THEN FirstVerdict(id)
                         ELSE SkippedNotInCluster

C2_Witness ==
    /\ SelOK
    /\ numFilters >= 2
    /\ \E id \in Defined :
         /\ IsRunning(id)
         /\ Cardinality(Rejecting(id)) >= 2
         /\ verdicts[id][1] # verdicts[id][2]
    /\ \E id \in Defined :
         /\ ~IsRunning(id)
         /\ Rejected(id)
         /\ FirstVerdict(id).Status = ReleaseStatusFailed

\* C3 (as claimed): every defined workload the cluster did not return ends
\* SKIPPED "not in cluster" and is not in filteredUpdates.
C3_NotRunningAlwaysSkipped ==
    SelOK => \A id \in Defined :
                 ~IsRunning(id) =>
                     /\ results[id] = SkippedNotInCluster
                     /\ id \notin Range(filteredUpdates)

\* C3 (amended): every defined workload the cluster did not return is left
\* out of filteredUpdates and ends SKIPPED "not in cluster", unless the
\* filters return IGNORED for it, in which case it keeps that IGNORED verdict.
C3_NotRunningSkipped ==
    SelOK => \A id \in Defined :
                 ~IsRunning(id) =>
                     /\ id \notin Range(filteredUpdates)
                     /\ id \notin attached
                     /\ IF Rejected(id) /\ FirstVerdict(id).Status = ReleaseStatusIgnored
                        THEN results[id] = FirstVerdict(id)
                        ELSE results[id] = SkippedNotInCluster

C3_Witness ==
    /\ SelOK
    /\ \E id \in Defined : ~IsRunning(id) /\ ~Rejected(id)
    /\ \E id \in Defined : /\ ~IsRunning(id)
                           /\ Rejected(id)
                           /\ FirstVerdict(id).Status = ReleaseStatusIgnored

\* C4 (as claimed): a workload with an IGNORED verdict has no entry in the
\* result map after SelectServices returns.
C4_IgnoredHasNoEntry ==
    SelOK => \A id \in Defined :
                 (Rejected(id) /\ FirstVerdict(id).Status = ReleaseStatusIgnored)
                     => id \notin DOMAIN results

\* C4 (amended): a workload with an IGNORED verdict is left out of
\* filteredUpdates but keeps an entry carrying the IGNORED verdict; a
\* workload with a SKIPPED or FAILED verdict is left out of filteredUpdates
\* and has an entry, which carries that verdict when the workload is running.
C4_IgnoredKept ==
    SelOK => \A id \in Defined :
                 Rejected(id) =>
                     /\ id \notin Range(filteredUpdates)
                     /\ id \in DOMAIN results
                     /\ FirstVerdict(id).Status = ReleaseStatusIgnored
                            => results[id] = FirstVerdict(id)
                     /\ (FirstVerdict(id).Status # ReleaseStatusIgnored /\ IsRunning(id))
                            => results[id] = FirstVerdict(id)

C4_Witness ==
    /\ SelOK
    /\ \E id \in Defined : /\ IsRunning(id)
                           /\ Rejected(id)
                           /\ FirstVerdict(id).Status = ReleaseStatusIgnored
                           /\ results[id].Status = ReleaseStatusIgnored
    /\ \E id \in Defined : /\ IsRunning(id)
                           /\ Rejected(id)
                           /\ FirstVerdict(id).Status = ReleaseStatusSkipped

\* No input makes FindDefinedServices or SomeControllers fail.
NoFailingInput ==
    /\ ~enumErr
    /\ ~clusterErr
    /\ \A id \in Defined : Len(services[id]) = 1 /\ services[id][1] \notin badFiles

\* C5: a workload the cluster reports that is not defined is dropped: it is
\* not in filteredUpdates, it gets no result entry, and it causes no error; no workload appears twice in
\* filteredUpdates, however often the cluster reports it.
C5_StrayDropped ==
    selPc = "done" =>
        /\ NoFailingInput => selErr = "none"
        /\ \A id \in Range(running) \ Defined :
             /\ id \notin Range(filteredUpdates)
             /\ id \notin attached
             /\ id \notin DOMAIN results
        /\ \A i, j \in 1..Len(filteredUpdates) :
             filteredUpdates[i] = filteredUpdates[j] => i = j

C5_Witness ==
    /\ SelOK
    /\ \E id \in Range(running) : id \notin Defined
    /\ \E i, j \in 1..Len(running) :
         /\ i # j
         /\ running[i] = running[j]
         /\ running[i] \in Range(filteredUpdates)

\* C6: when the enumeration reports more than one path for a resource,
\* SelectServices returns the error of FindDefinedServices, returns no
\* updates, does not call the cluster and adds no entry to the result map.
C6_MultipleManifestsFail ==
    (selPc = "done" /\ ~enumErr /\ \E id \in Defined : Len(services[id]) > 1) =>
        /\ selErr \in {"multiple", "readfile"}
        /\ badFiles = {} => selErr = "multiple"
        /\ filteredUpdates = <<>>
        /\ attached = {}
        /\ clusterCalls = <<>>
        /\ verdicts = <<>>
        /\ results = <<>>

C6_Witness ==
    /\ selPc = "done"
    /\ selErr = "multiple"
    /\ \E id \in Defined : Len(services[id]) = 1 /\ IsRunning(id)
    /\ \E id \in Defined : Len(services[id]) > 1
    /\ ~clusterErr

----------------------------------------------------------------------------
\* Properties of the checkout lock (checked under SpecLock)

\* C7: every read of the checkout is made by a release holding the read
\* lock, every manifest write by the release holding the write lock, and a
\* release that has returned from a call, with or without an error, holds
\* neither lock.
C7_LockDiscipline ==
    /\ access.kind = "read" => access.who \in rwReaders
    /\ access.kind = "write" => rwWriter = access.who
    /\ \A r \in Releases :
         pc[r] \in {"idle", "fds_rlock", "swp_rlock", "wu_lock"} =>
             r \notin rwReaders /\ rwWriter # r

C7_Witness ==
    /\ access.kind = "write"
    /\ \E r \in Releases : /\ r # access.who
                           /\ pc[r] = "idle"
                           /\ calls[r] > 0
                           /\ ret[r].err \in {"readfile", "enumerate", "policies"}

\* Release w is between the first and the last file write of a WriteUpdates
\* call.
InWrite(w) ==
    /\ pc[w] = "wu_loop"
    /\ queue[w] # <<>>
    /\ Len(queue[w]) < Len(kept[w])

\* C8: between the first and the last file write of one WriteUpdates call,
\* no other release writes or reads the checkout, and no other WriteUpdates
\* call is between its writes.
C8_NoInterleave ==
    \A w \in Releases :
        InWrite(w) =>
            /\ access.who \in {NoOne, w}
            /\ \A q \in Releases \ {w} :
                 /\ ~InWrite(q)
                 /\ pc[q] \notin {"fds_enum", "fds_loop", "fds_ret", "swp_read",
                                  "swp_ret", "wu_loop", "wu_ret"}

C8_Witness ==
    \E w, q \in Releases :
        /\ w # q
        /\ InWrite(w)
        /\ access = Access(w, "write", kept[w][1].ManifestPath)
        /\ pc[q] = "wu_lock"
        /\ queue[q] # <<>>

\* The bytes release r read from path p in its last FindDefinedServices.
ReadBytes(r, p) ==
    LET i == CHOOSE k \in 1..Len(kept[r]) : kept[r][k].ManifestPath = p
    IN  kept[r][i].ManifestBytes

\* C9 (as claimed): whenever WriteUpdates of a release overwrites a file, the
\* file still holds the bytes that release read in FindDefinedServices (or
\* its own earlier edit): no other writer changed it in between.
C9_SameTreeAtWrite ==
    [][\A r \in Releases :
          (/\ pc[r] = "wu_loop"
           /\ queue[r] # <<>>
           /\ queue'[r] = Tail(queue[r]))
              => files[Head(queue[r]).ManifestPath]
                    \in {ReadBytes(r, Head(queue[r]).ManifestPath), EditOf(r)}]_vars

\* C9 (amended): each call observes a stable tree for its own duration only:
\* while FindDefinedServices runs, every file it has read still holds the
\* bytes read (so the bytes it returns are those on disk when it returns),
\* and while WriteUpdates runs, every file it has written holds the bytes it
\* wrote.  Between the two calls no lock is held.
C9_StableWithinCall ==
    \A r \in Releases :
        /\ pc[r] = "fds_loop" =>
             \A i \in 1..Len(acc[r]) :
                 files[acc[r][i].ManifestPath] = acc[r][i].ManifestBytes
        /\ (pc[r] = "fds_ret" /\ ret[r].err = "none") =>
             \A i \in 1..Len(ret[r].defined) :
                 files[ret[r].defined[i].ManifestPath] = ret[r].defined[i].ManifestBytes
        /\ pc[r] \in {"wu_loop", "wu_ret"} =>
             \A i \in 1..(Len(kept[r]) - Len(queue[r])) :
                 files[kept[r][i].ManifestPath] = EditOf(r)

C9_Witness ==
    \E r, q \in Releases :
        /\ r # q
        /\ pc[r] = "fds_ret"
        /\ ret[r].err = "none"
        /\ Len(ret[r].defined) = 2
        /\ \E i \in 1..2 : ret[r].defined[i].ManifestBytes = EditOf(q)
        /\ \E i \in 1..2 : ret[r].defined[i].ManifestBytes = "v0"

----------------------------------------------------------------------------
\* Properties of the UpdateImages handler (checked under SpecHTTP)

\* Some value of the request does not parse.
SomeParseFails(req) ==
    \/ ~req.formOK
    \/ \E i \in 1..Len(req.service) : ~ParseResourceSpec(req.service[i]).ok
    \/ ~ParseImageSpec(req.image).ok
    \/ ~ParseReleaseKind(req.kind).ok
    \/ \E i \in 1..Len(req.exclude) : ~ParseResourceID(req.exclude[i]).ok

\* C10: if the form, a service spec, the image spec, the release kind or an
\* exclude ID does not parse, the handler answers 400 and never calls
\* service.UpdateImages; the service is called at most once per request, and
\* only when everything parsed.
C10_ParseBeforeWork ==
    httpPc = "responded" =>
        /\ SomeParseFails(request) =>
               response.code = StatusBadRequest /\ svcCalls = <<>>
        /\ Len(svcCalls) <= 1
        /\ svcCalls # <<>> => ~SomeParseFails(request)
        /\ ~SomeParseFails(request) => Len(svcCalls) = 1

C10_Witness ==
    /\ httpPc = "responded"
    /\ request.formOK
    /\ Len(request.service) = 2
    /\ \A i \in 1..2 : ParseResourceSpec(request.service[i]).ok
    /\ ParseImageSpec(request.image).ok
    /\ ParseReleaseKind(request.kind).ok
    /\ Len(request.exclude) = 2
    /\ ParseResourceID(request.exclude[1]).ok
    /\ ~ParseResourceID(request.exclude[2]).ok
    /\ response.code = StatusBadRequest
    /\ svcCalls = <<>>

\* The ReleaseSpec invariant: serviceSpecs is non-empty, and if it contains
\* ALL it contains only ALL.
ReleaseSpecInvariant(spec) ==
    /\ spec.ServiceSpecs # <<>>
    /\ ResourceSpecAll \in Range(spec.ServiceSpecs) =>
           Range(spec.ServiceSpecs) = {ResourceSpecAll}

\* C11: every ReleaseSpec the UpdateImages handler passes to the service
\* satisfies the ReleaseSpec invariant, for every request (with no service
\* value, or with ALL alongside a specific service, too).
C11_PassedSpecValid ==
    \A i \in 1..Len(svcCalls) : ReleaseSpecInvariant(svcCalls[i])

----------------------------------------------------------------------------
\* Properties of daemon registration (checked under SpecRegister)

IsPrefix(s, t) == Len(s) <= Len(t) /\ \A k \in 1..Len(s) : s[k] = t[k]

\* What doRegister did with RPC clients on connection c, in order.
RegOps(c) == [k \in 1..Len(regLog[c]) |-> regLog[c][k].op]

\* C12: the protocol version of a daemon session is fixed when the connection
\* is registered and never changes or mixes: a registration creates exactly
\* one RPC client, of the version of its route; that client and no other is
\* passed to RegisterDaemon and is closed only after RegisterDaemon returned;
\* when the upgrade fails no client is created or registered and the
\* response is 400.
C12_OneVersionPerSession ==
    \A c \in Conns :
        /\ \/ IsPrefix(RegOps(c), <<"new", "register", "returned", "close">>)
           \/ RegOps(c) = <<"upgrade_failed">>
        /\ \A k \in 1..Len(regLog[c]) :
               regLog[c][k].op # "upgrade_failed" =>
                   /\ newRPCFn[c] \in Versions
                   /\ regLog[c][k].client = NewClient(newRPCFn[c], c)
                   /\ regLog[c][k].client = rpcClient[c]
        /\ regPc[c] = "done" /\ RegOps(c) # <<"upgrade_failed">> =>
               RegOps(c) = <<"new", "register", "returned", "close">>
        /\ RegOps(c) = <<"upgrade_failed">> =>
               /\ regResponse[c].code = StatusBadRequest
               /\ rpcClient[c] = NoClient
               /\ regPc[c] = "done"
        /\ regResponse[c].code = StatusBadRequest =>
               RegOps(c) = <<"upgrade_failed">>

C12_Witness ==
    \E c, d \in Conns :
        /\ regPc[c] = "done"
        /\ RegOps(c) = <<"new", "register", "returned", "close">>
        /\ rpcClient[c].version = "V7"
        /\ regPc[d] = "done"
        /\ newRPCFn[d] = "V8"
        /\ RegOps(d) = <<"upgrade_failed">>
        /\ regResponse[d].code = StatusBadRequest

----------------------------------------------------------------------------
\* Properties of the job queue (checked under SpecJobs)

\* C13: per instance, at most one job is RUNNING at any time, and jobs reach
\* a terminal state (SUCCEEDED or FAILED) in the order of their Submit calls,
\* whatever the interleaving of the submissions.
C13_JobOrdering ==
    \A i \in Instances :
        /\ Cardinality(RunningJobs(i)) <= 1
        /\ IsPrefix(terminal[i], submitted[i])
        /\ \A k \in 1..Len(terminal[i]) :
               jobs[terminal[i][k]].status \in {"SUCCEEDED", "FAILED"}
        /\ \A j \in JobIDs :
               jobs[j].instance = i /\ jobs[j].status \in {"SUCCEEDED", "FAILED"} =>
                   j \in Range(terminal[i])

C13_Witness ==
    \E i \in Instances :
        /\ Len(terminal[i]) = 2
        /\ terminal[i][1] > terminal[i][2]
        /\ jobs[terminal[i][1]].error = "daemon disconnected"
        /\ jobs[terminal[i][2]].status = "SUCCEEDED"
        /\ Len(submitted[i]) = 3
        /\ RunningJobs(i) # {}

----------------------------------------------------------------------------
\* Properties of WriteUpdates on failure (checked under SpecWrite)

\* The updates of r's WriteUpdates call that its loop has gone past.
Written(r) == SubSeq(kept[r], 1, Len(kept[r]) - Len(queue[r]))

\* WriteFile failed on path p in r's call and left it truncated.
Torn(r, p) ==
    /\ pc[r] = "wu_ret"
    /\ ret[r].err = "write"
    /\ Head(queue[r]).ManifestPath = p
    /\ files[p] = "partial"

\* Where a WriteUpdates call of r stands: it holds the write lock, the
\* updates left are the tail of its list, every update before them is written
\* (unless a later failed write tore the same file, when tornAllowed), it is
\* about to return an error exactly when it stopped before the end of the
\* list, and it holds no lock once it has returned.
WU_Progress(r, tornAllowed) ==
    /\ pc[r] \in {"wu_loop", "wu_ret"} =>
           /\ rwWriter = r
           /\ Len(queue[r]) <= Len(kept[r])
           /\ \A k \in 1..Len(queue[r]) :
                  queue[r][k].ManifestPath =
                      kept[r][Len(kept[r]) - Len(queue[r]) + k].ManifestPath
           /\ \A k \in 1..Len(Written(r)) :
                  \/ files[Written(r)[k].ManifestPath] = EditOf(r)
                  \/ tornAllowed /\ Torn(r, Written(r)[k].ManifestPath)
    /\ pc[r] = "wu_ret" => (ret[r].err = "none" <=> queue[r] = <<>>)
    /\ pc[r] = "idle" => rwWriter # r

\* What one step can do to the checkout: no mode changes, no file appears,
\* and a file changes only when the writer's loop is at its update, which is
\* first in the list left: either to the bytes of the update, and the loop
\* moves on, or (when tornAllowed) to a truncated file, and the call stops
\* with the write error. A call that stops leaves the rest of its list, and
\* its return releases the lock, keeps the error and writes nothing.
WU_Step(tornAllowed) ==
    /\ fileMode' = fileMode
    /\ \A p \in DOMAIN files :
           files'[p] # files[p] =>
               /\ files[p] # "absent"
               /\ \E r \in Releases :
                      /\ rwWriter = r
                      /\ pc[r] = "wu_loop"
                      /\ queue[r] # <<>>
                      /\ Head(queue[r]).ManifestPath = p
                      /\ \/ /\ files'[p] = Head(queue[r]).ManifestBytes
                            /\ queue'[r] = Tail(queue[r])
                            /\ pc'[r] = "wu_loop"
                         \/ /\ tornAllowed
                            /\ files'[p] = "partial"
                            /\ pc'[r] = "wu_ret"
                            /\ ret'[r].err = "write"
    /\ \A r \in Releases :
           /\ pc[r] = "wu_loop" /\ queue'[r] # queue[r] =>
                  /\ queue'[r] = Tail(queue[r])
                  /\ files'[Head(queue[r]).ManifestPath] = Head(queue[r]).ManifestBytes
           /\ pc[r] = "wu_loop" /\ pc'[r] = "wu_ret" /\ queue[r] # <<>> =>
                  /\ ret'[r].err \in {"stat", "write"}
                  /\ queue'[r] = queue[r]
           /\ pc[r] = "wu_ret" /\ pc'[r] = "idle" =>
                  /\ rwWriter' = NoOne
                  /\ ret'[r] = ret[r]
                  /\ files' = files

\* C14: WriteUpdates is atomic per file only: it goes through the updates in
\* list order, overwriting each existing manifest with its bytes and keeping
\* its mode; at the first path it cannot stat or write it stops and returns
\* the error, with every earlier file overwritten and every later file
\* unchanged, never creating a file, and releases the write lock. Per-file
\* atomicity: a file changes only from its old bytes to its update's bytes.
C14_AtomicPerFile ==
    /\ [](\A r \in Releases : WU_Progress(r, FALSE))
    /\ [][WU_Step(FALSE)]_vars

\* C14, without the per-file atomicity: the same, except that the file whose
\* write failed may be left truncated.
C14_PerFileNoRollback ==
    /\ [](\A r \in Releases : WU_Progress(r, TRUE))
    /\ [][WU_Step(TRUE)]_vars

\* A call that wrote its first file, failed writing the second and left it
\* truncated, did not touch the third, and has returned.
C14_Witness ==
    \E r \in Releases :
        /\ pc[r] = "idle"
        /\ calls[r] = MaxCalls
        /\ ret[r].err = "write"
        /\ rwWriter = NoOne
        /\ Len(kept[r]) = 3
        /\ Cardinality({kept[r][k].ManifestPath : k \in 1..3}) = 3
        /\ files[kept[r][1].ManifestPath] = EditOf(r)
        /\ files[kept[r][2].ManifestPath] = "partial"
        /\ files[kept[r][3].ManifestPath] = "v0"

----------------------------------------------------------------------------
\* Properties of the executor (checked under SpecExec)

\* Every EXECUTE release has released the lock of its step 1.
ExecutorsDone == \A r \in Releases : role[r] = "executor" => exPc[r] = "done"

\* C15: an EXECUTE release that follows the executor's steps (acquire the
\* exclusive lock, call WriteUpdates, which acquires it too, ..., release the
\* lock) always terminates: as long as an executor has not released the
\* lock, some release can take a step, so the run cannot stop with the lock
\* held.
C15_ExecutorTerminates == ExecutorsDone \/ ENABLED NextExec

\* An executor waiting in WriteUpdates for the lock it holds itself.
C15_Witness ==
    \E r \in Releases :
        /\ role[r] = "executor"
        /\ exPc[r] = "locked"
        /\ rwWriter = r
        /\ pc[r] = "wu_lock"
        /\ ~ENABLED NextExec

=============================================================================
